---- MODULE Spec2Model ----
(***************************************************************************)
(* State-machine model of lemotdesign/ai-agent-builder:                    *)
(*   - GeminiContentService (content chat sessions over a relational       *)
(*     store, one provider call per chat turn);                            *)
(*   - the POST /test-model/:modelId route.                                *)
(* An asynchronous method is cut at its awaits: the store and the provider *)
(* are remote, so their effect and the continuation that follows the await *)
(* are separate steps, and steps of different invocations interleave.      *)
(***************************************************************************)
EXTENDS Integers, Sequences, FiniteSets, TLC

(***************************************************************************)
(* Bounds of the model.                                                    *)
(***************************************************************************)
MaxSessions == 1
MaxCalls == 2
MaxGenerations == 2
MaxRequests == 2

Calls == 1..MaxCalls
Generations == 1..MaxGenerations
Requests == 1..MaxRequests

(***************************************************************************)
(* Input domains.                                                          *)
(***************************************************************************)
Users == {"alice", "bob"}
\* the session types a caller of Spec passes (none: the default applies), and
\* those a caller of PromptSpec passes
SessionTypes == {"undefined", "content_creation"}
AllSessionTypes == {"undefined", "content_creation", "seo_optimization", "rewrite", "landing_page"}
Contexts == {[spyfuData |-> "undefined"], [spyfuData |-> "kw-report"]}
SessionContexts == {[spyfuData |-> "undefined"]}
\* the texts are labels; the c-th invocation sends the c-th user message and
\* the provider answers it with the c-th reply, so that every turn is told apart
UserMessageOf(c) == <<"Write an intro about SEO", "user message", c>>
ReplyOf(c) == <<"Consider adding a summary of the key points.", "reply", c>>
ProviderErrors == {"429 rate limit exceeded", "fetch failed"}
StoreErrors == {"connection terminated"}
\* session identifiers a caller may supply: every row that can exist, and one that cannot
SessionIds == 1..(MaxSessions + 1)

Undefined == "undefined"
None == [none |-> TRUE]

VARIABLES
    sessions,     \* table contentChatSessions: sequence of rows, row i has id i
    clock,        \* the wall clock read by new Date()
    calls,        \* invocations of chatWithGemini, by slot
    generations,  \* invocations of the generate/rewrite operations, by slot
    requests,     \* requests to POST /test-model/:modelId, by slot
    env,          \* process.env of the server process
    service,      \* the GeminiContentService instance, once constructed
    extraction,   \* an assistant reply and the suggestions extracted from it
    listings,     \* requests to GET /test-models, by slot
    studio,       \* the state of the ContentStudio component and its mutations
    chatTest,     \* the state of the ChatTestModule component
    github        \* the invocations of connectGitHub, their popups and listeners

serviceVars == <<sessions, clock, calls, generations>>
processVars == <<env, service>>
clientVars == <<extraction, listings, studio, chatTest, github>>
vars == <<sessions, clock, calls, generations, requests, env, service,
          extraction, listings, studio, chatTest, github>>

(***************************************************************************)
(* Helpers on sequences.                                                   *)
(***************************************************************************)
IsPrefix(s, t) ==
    /\ Len(s) <= Len(t)
    /\ \A i \in 1..Len(s) : s[i] = t[i]

Count(S) == Cardinality(S)

(***************************************************************************)
(* Error values.                                                           *)
(***************************************************************************)
ErrSessionNotFound == "Chat session not found"
ErrChatFailed == "Failed to process chat message"
ErrGenerateFailed == "Failed to generate content"
ErrRewriteFailed == "Failed to rewrite content"
ErrFrontmatterFailed == "Failed to generate frontmatter"

(***************************************************************************)
(* buildSystemPrompt: the base sentence, then one sentence chosen by the   *)
(* session type (none for any other type).  A prompt is the sequence of    *)
(* its pieces.                                                             *)
(***************************************************************************)
basePrompt ==
    <<"You are an expert ", "content strategist",
      " and SEO specialist helping users create high-quality, search-optimized content.">>

\* the sentence added for the session type
typePrompt(sessionType) ==
    CASE sessionType = "content_creation" ->
            <<" You help brainstorm ideas, structure content, and optimize for search engines. Be creative, practical, and focused on results.">>
      [] sessionType = "seo_optimization" ->
            <<" You specialize in improving existing content for better search rankings. Analyze content gaps, keyword opportunities, and provide specific optimization recommendations.">>
      [] sessionType = "rewrite" ->
            <<" You excel at rewriting content to improve clarity, engagement, and SEO performance while preserving the original message and tone.">>
      [] OTHER -> <<>>

\* a slip: the default case returns an empty prompt
buildSystemPrompt_emptyDefault(sessionType, context) ==
    IF typePrompt(sessionType) = <<>> THEN <<>>
    ELSE basePrompt \o typePrompt(sessionType)

buildSystemPrompt(sessionType, context) == basePrompt \o typePrompt(sessionType)

(***************************************************************************)
(* buildChatPrompt: one labelled block per message whose role is system,   *)
(* user or assistant (any other role is skipped), then the SpyFu block     *)
(* when the context has one, then the closing instruction.                 *)
(***************************************************************************)
ClosingInstruction == "Please provide a helpful, actionable response:"

RoleLabel(role) ==
    CASE role = "system" -> "SYSTEM"
      [] role = "user" -> "USER"
      [] role = "assistant" -> "ASSISTANT"
      [] OTHER -> Undefined

RECURSIVE ConversationBlocks(_)
ConversationBlocks(conversation) ==
    IF conversation = <<>> THEN <<>>
    ELSE LET msg == Head(conversation)
             rest == ConversationBlocks(Tail(conversation))
         IN  IF RoleLabel(msg.role) = Undefined THEN rest
             ELSE <<[label |-> RoleLabel(msg.role), content |-> msg.content]>> \o rest

buildChatPrompt(conversation, context) ==
    ConversationBlocks(conversation)
        \o (IF context.spyfuData # Undefined
            THEN <<[label |-> "AVAILABLE CONTEXT", content |-> context.spyfuData]>>
            ELSE <<>>)
        \o <<[label |-> "CLOSING", content |-> ClosingInstruction]>>

(***************************************************************************)
(* The constructor: it throws when GEMINI_API_KEY is missing or empty,     *)
(* before the provider client and the model handle are created.            *)
(***************************************************************************)
ErrApiKeyRequired == "GEMINI_API_KEY environment variable is required"
GeminiModel == "gemini-2.5-flash"
ApiKeys == {Undefined, "", "AIza-key"}

NoService == [state |-> "none", error |-> Undefined, genAI |-> None, model |-> None]

\* a slip: the client is created whatever the key
constructor_noKeyCheck ==
    /\ service.state = "none"
    /\ service' = [state |-> "constructed", error |-> Undefined,
                   genAI |-> [apiKey |-> env.GEMINI_API_KEY],
                   model |-> [model |-> GeminiModel]]
    /\ UNCHANGED <<serviceVars, requests, env, clientVars>>

constructor ==
    /\ service.state = "none"
    /\ service' =
           IF env.GEMINI_API_KEY \in {Undefined, ""}
           THEN [state |-> "failed", error |-> ErrApiKeyRequired,
                 genAI |-> None, model |-> None]
           ELSE [state |-> "constructed", error |-> Undefined,
                 genAI |-> [apiKey |-> env.GEMINI_API_KEY],
                 model |-> [model |-> GeminiModel]]
    /\ UNCHANGED <<serviceVars, requests, env, clientVars>>

\* a method runs on an instance, and there is one only when the constructor returned
Constructed == service.state = "constructed"

(***************************************************************************)
(* getChatSession: the row whose id and owner both match, or None.         *)
(***************************************************************************)
\* a slip: the row is looked up by its id alone
getChatSession_byIdOnly(sessionId, userId) ==
    IF sessionId \in DOMAIN sessions THEN sessions[sessionId] ELSE None

getChatSession(sessionId, userId) ==
    IF /\ sessionId \in DOMAIN sessions
       /\ sessions[sessionId].userId = userId
    THEN sessions[sessionId]
    ELSE None

(***************************************************************************)
(* startContentSession: insert a row with an empty message list; the       *)
(* session type defaults to "content_creation".                            *)
(***************************************************************************)
startContentSession(userId, contentPieceId, sessionType, context) ==
    /\ sessions' = Append(sessions,
                          [id |-> Len(sessions) + 1,
                           userId |-> userId,
                           contentPieceId |-> contentPieceId,
                           sessionType |->
                               IF sessionType = Undefined THEN "content_creation"
                               ELSE sessionType,
                           context |-> context,
                           messages |-> <<>>,
                           updatedAt |-> 0])
    /\ UNCHANGED <<clock, calls, generations, requests, processVars, clientVars>>

(***************************************************************************)
(* chatWithGemini.  A slot of calls holds one invocation:                  *)
(*   idle -> generating -> updating -> committed -> returned               *)
(*        \-> failed      \-> failed   \-> failed                          *)
(***************************************************************************)
IdleCall ==
    [pc |-> "idle", sessionId |-> 0, userMessage |-> Undefined, userId |-> Undefined,
     context |-> [spyfuData |-> Undefined], conversationHistory |-> <<>>,
     prompt |-> <<>>, assistantMessage |-> Undefined, updatedMessages |-> <<>>,
     updatedAt |-> 0, thrown |-> Undefined, error |-> Undefined, result |-> None,
     providerCalls |-> 0, storeUpdates |-> 0]

\* a slip: the history is left out
fullConversation_noHistory(session, userMessage, context) ==
    <<[role |-> "system", content |-> buildSystemPrompt(session.sessionType, context)],
      [role |-> "user", content |-> userMessage]>>

\* the conversation sent to the provider: system prompt, history, new user turn
fullConversation(session, userMessage, context) ==
    <<[role |-> "system", content |-> buildSystemPrompt(session.sessionType, context)]>>
        \o [i \in 1..Len(session.messages) |->
               [role |-> session.messages[i].role,
                content |-> session.messages[i].content]]
        \o <<[role |-> "user", content |-> userMessage]>>

\* a slip: the lookup sits inside the try, so its error comes out generic
chatWithGemini_lookupInsideTry(c, sessionId, userMessage, userId, context) ==
    /\ calls[c].pc = "idle"
    /\ LET session == getChatSession(sessionId, userId) IN
       IF session = None
       THEN calls' = [calls EXCEPT ![c] =
                [@ EXCEPT !.pc = "failed", !.sessionId = sessionId,
                          !.userId = userId, !.error = ErrChatFailed]]
       ELSE calls' = [calls EXCEPT ![c] =
                [@ EXCEPT !.pc = "generating", !.sessionId = sessionId,
                          !.userMessage = userMessage, !.userId = userId,
                          !.context = context,
                          !.conversationHistory = session.messages,
                          !.prompt = buildChatPrompt(
                              fullConversation(session, userMessage, context), context),
                          !.providerCalls = @ + 1]]
    /\ UNCHANGED <<sessions, clock, generations, requests, processVars, clientVars>>

\* lines 143-164: load the session, fail when there is none, else build the
\* prompt and issue the one provider call
chatWithGemini(c, sessionId, userMessage, userId, context) ==
    /\ calls[c].pc = "idle"
    /\ LET session == getChatSession(sessionId, userId) IN
       IF session = None
       THEN calls' = [calls EXCEPT ![c] =
                [@ EXCEPT !.pc = "failed", !.sessionId = sessionId,
                          !.userId = userId, !.error = ErrSessionNotFound]]
       ELSE calls' = [calls EXCEPT ![c] =
                [@ EXCEPT !.pc = "generating", !.sessionId = sessionId,
                          !.userMessage = userMessage, !.userId = userId,
                          !.context = context,
                          !.conversationHistory = session.messages,
                          !.prompt = buildChatPrompt(
                              fullConversation(session, userMessage, context), context),
                          !.providerCalls = @ + 1]]
    /\ UNCHANGED <<sessions, clock, generations, requests, processVars, clientVars>>

\* lines 164-181: the provider answered; build both turns and issue the update
chatWithGemini_generated(c, assistantMessage) ==
    /\ calls[c].pc = "generating"
    /\ calls' = [calls EXCEPT ![c] =
            [@ EXCEPT !.pc = "updating",
                      !.assistantMessage = assistantMessage,
                      !.updatedMessages =
                          calls[c].conversationHistory \o
                          <<[role |-> "user", content |-> calls[c].userMessage,
                             timestamp |-> clock],
                            [role |-> "assistant", content |-> assistantMessage,
                             timestamp |-> clock]>>,
                      !.updatedAt = clock]]
    /\ clock' = clock + 1
    /\ UNCHANGED <<sessions, generations, requests, processVars, clientVars>>

\* a slip: the user turn is stored before the failure is reported
chatWithGemini_generateThrew_partialAppend(c, providerError) ==
    /\ calls[c].pc = "generating"
    /\ sessions' = [sessions EXCEPT ![calls[c].sessionId] =
            [@ EXCEPT !.messages = Append(calls[c].conversationHistory,
                          [role |-> "user", content |-> calls[c].userMessage,
                           timestamp |-> clock])]]
    /\ calls' = [calls EXCEPT ![c] =
            [@ EXCEPT !.pc = "failed", !.thrown = providerError, !.error = ErrChatFailed]]
    /\ UNCHANGED <<clock, generations, requests, processVars, clientVars>>

\* a slip: the provider call is issued once more after a failure
chatWithGemini_generateThrew_retry(c, providerError) ==
    /\ calls[c].pc = "generating"
    /\ calls' = [calls EXCEPT ![c] =
            IF calls[c].providerCalls < 2
            THEN [@ EXCEPT !.thrown = providerError, !.providerCalls = @ + 1]
            ELSE [@ EXCEPT !.pc = "failed", !.thrown = providerError,
                           !.error = ErrChatFailed]]
    /\ UNCHANGED <<sessions, clock, generations, requests, processVars, clientVars>>

\* lines 164-166, 188-191: the provider call (or reading its text) threw; the
\* catch logs the error and raises the generic one
chatWithGemini_generateThrew(c, providerError) ==
    /\ calls[c].pc = "generating"
    /\ calls' = [calls EXCEPT ![c] =
            [@ EXCEPT !.pc = "failed", !.thrown = providerError, !.error = ErrChatFailed]]
    /\ UNCHANGED <<sessions, clock, generations, requests, processVars, clientVars>>

\* a slip: the update has no WHERE and writes every row
chatWithGemini_updateApplied_everyRow(c) ==
    /\ calls[c].pc = "updating"
    /\ sessions' = [s \in DOMAIN sessions |->
            [sessions[s] EXCEPT !.messages = calls[c].updatedMessages,
                                !.updatedAt = calls[c].updatedAt]]
    /\ calls' = [calls EXCEPT ![c] =
            [@ EXCEPT !.pc = "committed", !.storeUpdates = @ + 1]]
    /\ UNCHANGED <<clock, generations, requests, processVars, clientVars>>

\* lines 175-181: the store applies UPDATE ... SET messages, updatedAt WHERE id
chatWithGemini_updateApplied(c) ==
    /\ calls[c].pc = "updating"
    /\ sessions' = [sessions EXCEPT ![calls[c].sessionId] =
            [@ EXCEPT !.messages = calls[c].updatedMessages,
                      !.updatedAt = calls[c].updatedAt]]
    /\ calls' = [calls EXCEPT ![c] =
            [@ EXCEPT !.pc = "committed", !.storeUpdates = @ + 1]]
    /\ UNCHANGED <<clock, generations, requests, processVars, clientVars>>

\* lines 175-181, 188-191: the store rejects the update
chatWithGemini_updateThrew(c, storeError) ==
    /\ calls[c].pc = "updating"
    /\ calls' = [calls EXCEPT ![c] =
            [@ EXCEPT !.pc = "failed", !.thrown = storeError, !.error = ErrChatFailed]]
    /\ UNCHANGED <<sessions, clock, generations, requests, processVars, clientVars>>

\* lines 183-187: the continuation after the update returns the reply
\* (the suggestions field of the result is extractSuggestions of the reply,
\* modelled on reply texts by the action extract)
chatWithGemini_return(c) ==
    /\ calls[c].pc = "committed"
    /\ calls' = [calls EXCEPT ![c] =
            [@ EXCEPT !.pc = "returned",
                      !.result = [message |-> calls[c].assistantMessage,
                                  sessionId |-> calls[c].sessionId]]]
    /\ UNCHANGED <<sessions, clock, generations, requests, processVars, clientVars>>

(***************************************************************************)
(* generateSEOContent, rewriteContentForSEO, generateHugoFrontmatter: one  *)
(* provider call, the text returned or the operation's own error raised;   *)
(* none of them touches the store.                                         *)
(***************************************************************************)
GenerationKinds == {"generateSEOContent", "rewriteContentForSEO", "generateHugoFrontmatter"}

GenerationError(kind) ==
    CASE kind = "generateSEOContent" -> ErrGenerateFailed
      [] kind = "rewriteContentForSEO" -> ErrRewriteFailed
      [] kind = "generateHugoFrontmatter" -> ErrFrontmatterFailed

IdleGeneration ==
    [pc |-> "idle", kind |-> Undefined, result |-> Undefined, error |-> Undefined,
     providerCalls |-> 0]

generateContent(g, kind) ==
    /\ generations[g].pc = "idle"
    /\ generations' = [generations EXCEPT ![g] =
            [@ EXCEPT !.pc = "generating", !.kind = kind, !.providerCalls = @ + 1]]
    /\ UNCHANGED <<sessions, clock, calls, requests, processVars, clientVars>>

generateContent_generated(g, text) ==
    /\ generations[g].pc = "generating"
    /\ generations' = [generations EXCEPT ![g] =
            [@ EXCEPT !.pc = "returned", !.result = text]]
    /\ UNCHANGED <<sessions, clock, calls, requests, processVars, clientVars>>

generateContent_generateThrew(g, providerError) ==
    /\ generations[g].pc = "generating"
    /\ generations' = [generations EXCEPT ![g] =
            [@ EXCEPT !.pc = "failed", !.error = GenerationError(generations[g].kind)]]
    /\ UNCHANGED <<sessions, clock, calls, requests, processVars, clientVars>>

(***************************************************************************)
(* extractSuggestions.  A text is the sequence of its characters.  Each of *)
(* the five patterns is matched over the whole reply (String.match with a  *)
(* global, case-insensitive pattern: leftmost matches, none overlapping),  *)
(* each match is cleaned and kept when its length is within the limits,    *)
(* and the first five kept are returned.                                   *)
(***************************************************************************)
MinSuggestionLength == 10
MaxSuggestionLength == 100
MaxSuggestions == 5

UpperChars == <<"A", "B", "C", "D", "E", "F", "G", "H", "I", "J", "K", "L", "M",
                "N", "O", "P", "Q", "R", "S", "T", "U", "V", "W", "X", "Y", "Z">>
LowerChars == <<"a", "b", "c", "d", "e", "f", "g", "h", "i", "j", "k", "l", "m",
                "n", "o", "p", "q", "r", "s", "t", "u", "v", "w", "x", "y", "z">>

toLowerCase(ch) ==
    IF \E i \in 1..26 : UpperChars[i] = ch
    THEN LowerChars[CHOOSE i \in 1..26 : UpperChars[i] = ch]
    ELSE ch

\* the class \s
IsSpace(ch) == ch \in {" ", "\t", "\n", "\r"}

\* the literal (in lower case) stands at position i of the text, whatever the case
LiteralAt(text, i, literal) ==
    /\ i + Len(literal) - 1 <= Len(text)
    /\ \A k \in 1..Len(literal) : toLowerCase(text[i + k - 1]) = literal[k]

Least(S) == CHOOSE m \in S : \A x \in S : m <= x

\* the first position from i on that holds no white space
SkipSpaces(text, i) ==
    LET stops == {k \in i..Len(text) : ~IsSpace(text[k])}
    IN  IF stops = {} THEN Len(text) + 1 ELSE Least(stops)

\* the last position of the run [^.]* that starts at position i
RunEnd(text, i) ==
    LET stops == {k \in i..Len(text) : text[k] = "."}
    IN  IF stops = {} THEN Len(text) ELSE Least(stops) - 1

\* lines 328-334: the words of each trigger, which the pattern joins by \s+,
\* and whether \s+ (not \s*) must follow the trigger
patterns ==
    <<[words |-> << <<"c", "o", "n", "s", "i", "d", "e", "r">> >>, space |-> TRUE],
      [words |-> << <<"t", "r", "y">> >>, space |-> TRUE],
      [words |-> << <<"y", "o", "u">>, <<"c", "o", "u", "l", "d">> >>, space |-> TRUE],
      [words |-> << <<"i">>, <<"r", "e", "c", "o", "m", "m", "e", "n", "d">> >>,
       space |-> TRUE],
      [words |-> << <<"s", "u", "g", "g", "e", "s", "t", "i", "o", "n", ":">> >>,
       space |-> FALSE]>>

\* line 340: the alternatives of the cleaning pattern, as literals
cleaningPrefixes ==
    <<<<"c", "o", "n", "s", "i", "d", "e", "r">>,
      <<"t", "r", "y">>,
      <<"y", "o", "u", " ", "c", "o", "u", "l", "d">>,
      <<"i", " ", "r", "e", "c", "o", "m", "m", "e", "n", "d">>,
      <<"s", "u", "g", "g", "e", "s", "t", "i", "o", "n", ":">>>>

\* the position after the trigger words standing at i, or 0 when they do not
RECURSIVE WordsEnd(_, _, _)
WordsEnd(text, i, words) ==
    IF ~LiteralAt(text, i, Head(words)) THEN 0
    ELSE LET after == i + Len(Head(words)) IN
         IF Len(words) = 1 THEN after
         ELSE IF after <= Len(text) /\ IsSpace(text[after])
              THEN WordsEnd(text, SkipSpaces(text, after), Tail(words))
              ELSE 0

\* the last position of the match of the pattern that starts at i, or 0
MatchEnd(text, i, pattern) ==
    LET after == WordsEnd(text, i, pattern.words)
        last == RunEnd(text, after)
    IN  IF after = 0 THEN 0
        ELSE IF pattern.space
             THEN IF after <= Len(text) /\ IsSpace(text[after]) /\ last - after + 1 >= 2
                  THEN last ELSE 0
             ELSE IF last - after + 1 >= 1 THEN last ELSE 0

\* line 337: response.match(pattern), the matches from position i on
RECURSIVE MatchesFrom(_, _, _)
MatchesFrom(text, i, pattern) ==
    LET starts == {k \in i..Len(text) : MatchEnd(text, k, pattern) > 0}
    IN  IF starts = {} THEN <<>>
        ELSE LET first == Least(starts)
                 last == MatchEnd(text, first, pattern)
             IN  <<SubSeq(text, first, last)>> \o MatchesFrom(text, last + 1, pattern)

trim(text) ==
    LET inked == {k \in 1..Len(text) : ~IsSpace(text[k])}
    IN  IF inked = {} THEN <<>>
        ELSE SubSeq(text, Least(inked), CHOOSE m \in inked : \A x \in inked : x <= m)

\* line 340: remove the first alternative that stands at the start, and the
\* white space after it; then trim
cleaned(match) ==
    LET hits == {k \in 1..Len(cleaningPrefixes) : LiteralAt(match, 1, cleaningPrefixes[k])}
    IN  IF hits = {} THEN trim(match)
        ELSE LET k == CHOOSE h \in hits : \A g \in hits : h <= g
                 from == SkipSpaces(match, Len(cleaningPrefixes[k]) + 1)
             IN  trim(SubSeq(match, from, Len(match)))

\* line 341
kept(text) == Len(text) > MinSuggestionLength /\ Len(text) < MaxSuggestionLength

RECURSIVE KeptOf(_)
KeptOf(matches) ==
    IF matches = <<>> THEN <<>>
    ELSE LET c == cleaned(Head(matches)) IN
         (IF kept(c) THEN <<c>> ELSE <<>>) \o KeptOf(Tail(matches))

\* lines 336-346: the kept candidates, pattern by pattern
RECURSIVE Candidates(_, _)
Candidates(response, k) ==
    IF k > Len(patterns) THEN <<>>
    ELSE KeptOf(MatchesFrom(response, 1, patterns[k])) \o Candidates(response, k + 1)

\* a slip: the list is returned whole
extractSuggestions_noLimit(response) == Candidates(response, 1)

extractSuggestions(response) ==
    LET suggestions == Candidates(response, 1)
    IN  SubSeq(suggestions, 1,
               IF Len(suggestions) < MaxSuggestions THEN Len(suggestions)
               ELSE MaxSuggestions)

(***************************************************************************)
(* The replies extractSuggestions is applied to: up to MaxFragments of the *)
(* fragments below, one after the other.                                   *)
(***************************************************************************)
MaxFragments == 3

ReplyFragments ==
    <<
      \* two suggestions, 'try' before 'consider' in the text
      <<"T", "r", "y", " ", "s", "h", "o", "r", "t", "e", "r", " ", "t", "i", "t", "l",
        "e", "s", ".", " ", "C", "o", "n", "s", "i", "d", "e", "r", " ", "a", "d", "d",
        "i", "n", "g", " ", "a", " ", "s", "u", "m", "m", "a", "r", "y", ".", " ">>,
      \* two suggestions of two-word triggers
      <<"Y", "o", "u", " ", "c", "o", "u", "l", "d", " ", "l", "i", "n", "k", " ", "r",
        "e", "l", "a", "t", "e", "d", " ", "p", "o", "s", "t", "s", ".", " ", "I", " ",
        "r", "e", "c", "o", "m", "m", "e", "n", "d", " ", "a", " ", "c", "l", "e", "a",
        "r", " ", "h", "e", "a", "d", "l", "i", "n", "e", ".", " ">>,
      \* one suggestion, and one that is too short to keep
      <<"S", "u", "g", "g", "e", "s", "t", "i", "o", "n", ":", " ", "u", "s", "e", " ",
        "b", "u", "l", "l", "e", "t", " ", "l", "i", "s", "t", "s", ".", " ", "T", "r",
        "y", " ", "i", "t", ".", " ">>,
      \* a trigger written with two spaces, and no period at its end
      <<"Y", "o", "u", " ", " ", "c", "o", "u", "l", "d", " ", "a", "d", "d", " ", "m",
        "o", "r", "e", " ", "i", "m", "a", "g", "e", "s">>,
      \* a continuation with no trigger and no period
      <<" ", "a", "n", "d", " ", "k", "e", "e", "p", " ", "e", "v", "e", "r", "y", " ",
        "p", "a", "r", "a", "g", "r", "a", "p", "h", " ", "f", "o", "c", "u", "s", "e",
        "d", " ", "o", "n", " ", "o", "n", "e", " ", "s", "i", "n", "g", "l", "e", " ",
        "i", "d", "e", "a", " ", "f", "o", "r", " ", "t", "h", "e", " ", "r", "e", "a",
        "d", "e", "r">>,
      \* no trigger
      <<"H", "e", "r", "e", " ", "i", "s", " ", "a", " ", "d", "r", "a", "f", "t", ".", " ">>
    >>

\* the assistant reply grows by one fragment
receiveFragment(f) ==
    /\ IF extraction = None
       THEN extraction' = [response |-> ReplyFragments[f], fragments |-> 1,
                           extracted |-> FALSE, suggestions |-> <<>>]
       ELSE /\ ~extraction.extracted
            /\ extraction.fragments < MaxFragments
            /\ extraction' = [extraction EXCEPT !.response = @ \o ReplyFragments[f],
                                                !.fragments = @ + 1]
    /\ UNCHANGED <<serviceVars, requests, processVars, listings, studio, chatTest, github>>

\* line 186: the suggestions of the reply
extract ==
    /\ extraction # None
    /\ ~extraction.extracted
    /\ extraction' = [extraction EXCEPT !.extracted = TRUE,
                                        !.suggestions = extractSuggestions(extraction.response)]
    /\ UNCHANGED <<serviceVars, requests, processVars, listings, studio, chatTest, github>>

(***************************************************************************)
(* ModelConfigService.selectClientAndModel: the client and the provider    *)
(* model name of a configured key; an unknown key is rejected.  A model    *)
(* name is the sequence of its characters.                                 *)
(***************************************************************************)
modelConfigurations ==
    [k \in {"gpt-5", "grok-4"} |->
        IF k = "gpt-5"
        THEN [modelName |-> <<"g", "p", "t", "-", "5">>, client |-> "openai"]
        ELSE [modelName |-> <<"g", "r", "o", "k", "-", "4", "-", "0", "7", "0", "9">>,
              client |-> "xai"]]

ModelIds == DOMAIN modelConfigurations \cup {"gpt-9000"}

selectClientAndModel(modelId) ==
    IF modelId \in DOMAIN modelConfigurations
    THEN [threw |-> FALSE,
          client |-> modelConfigurations[modelId].client,
          modelName |-> modelConfigurations[modelId].modelName]
    ELSE [threw |-> TRUE, error |-> [message |-> "Unsupported model"]]

startsWith(str, prefix) ==
    /\ Len(prefix) <= Len(str)
    /\ SubSeq(str, 1, Len(prefix)) = prefix

(***************************************************************************)
(* POST /test-model/:modelId.  A slot of requests holds one request:       *)
(*   idle -> awaiting -> done                                              *)
(*        \-> done                                                         *)
(***************************************************************************)
DefaultTestMessage == "Hello, can you confirm you're working correctly?"
MaxTokens == 150
Temperature == [numerator |-> 7, denominator |-> 10]
Gpt5Prefix == <<"g", "p", "t", "-", "5">>

RequestBodies == {[message |-> Undefined], [message |-> ""], [message |-> "ping"]}
ProviderFailures == {[message |-> e] : e \in ProviderErrors}
CompletionOf(r) ==
    [choices |-> <<[message |-> [content |-> ReplyOf(r)]]>>,
     usage |-> [prompt_tokens |-> 40, completion_tokens |-> 20, total_tokens |-> 60]]

IdleRequest ==
    [pc |-> "idle", modelId |-> Undefined, body |-> None, message |-> Undefined,
     completionParams |-> None, createCalls |-> 0, created |-> None,
     thrown |-> None, responses |-> <<>>]

\* lines 77-83: the catch of the handler
testModelCatch(modelId, error) ==
    [status |-> 500,
     body |-> [error |-> <<"Failed to test model ", modelId>>,
               details |-> error.message]]

\* a slip: every model gets max_tokens and temperature
completionParamsOf_sameForAll(modelName, message) ==
    [model |-> modelName,
     messages |->
         <<[role |-> "system",
            content |-> <<"You are testing the ", modelName,
                          " model. Respond briefly confirming the model is working and mention your capabilities.">>],
           [role |-> "user", content |-> message]>>,
     max_tokens |-> MaxTokens, temperature |-> Temperature]

\* lines 41-65: the parameters of the completion call
completionParamsOf(modelName, message) ==
    LET isGPT5 == startsWith(modelName, Gpt5Prefix)
        messages ==
            <<[role |-> "system",
               content |-> <<"You are testing the ", modelName,
                             " model. Respond briefly confirming the model is working and mention your capabilities.">>],
              [role |-> "user", content |-> message]>>
    IN  IF isGPT5
        THEN [model |-> modelName, messages |-> messages,
              max_completion_tokens |-> MaxTokens]
        ELSE [model |-> modelName, messages |-> messages,
              max_tokens |-> MaxTokens, temperature |-> Temperature]

\* a slip: a rejected identifier falls back to a configured model
testModel_fallsBack(r, modelId, body) ==
    /\ requests[r].pc = "idle"
    /\ LET message == IF body.message = Undefined THEN DefaultTestMessage
                      ELSE body.message
           selected == selectClientAndModel(modelId)
           modelName == IF selected.threw THEN modelConfigurations["gpt-5"].modelName
                        ELSE selected.modelName
       IN  requests' = [requests EXCEPT ![r] =
                [@ EXCEPT !.pc = "awaiting", !.modelId = modelId,
                          !.body = body, !.message = message,
                          !.completionParams = completionParamsOf(modelName, message),
                          !.createCalls = @ + 1]]
    /\ UNCHANGED <<serviceVars, processVars, clientVars>>

\* lines 35-67: resolve the model, build the parameters, issue the completion
testModel(r, modelId, body) ==
    /\ requests[r].pc = "idle"
    /\ LET message == IF body.message = Undefined THEN DefaultTestMessage
                      ELSE body.message
           selected == selectClientAndModel(modelId)
       IN  IF selected.threw
           THEN requests' = [requests EXCEPT ![r] =
                    [@ EXCEPT !.pc = "done", !.modelId = modelId, !.body = body,
                              !.message = message,
                              !.responses = Append(@, testModelCatch(modelId, selected.error))]]
           ELSE requests' = [requests EXCEPT ![r] =
                    [@ EXCEPT !.pc = "awaiting", !.modelId = modelId,
                              !.body = body, !.message = message,
                              !.completionParams =
                                  completionParamsOf(selected.modelName, message),
                              !.createCalls = @ + 1]]
    /\ UNCHANGED <<serviceVars, processVars, clientVars>>

\* lines 67-76: the completion arrived; send the success body
testModel_created(r, response) ==
    /\ requests[r].pc = "awaiting"
    /\ requests' = [requests EXCEPT ![r] =
            [@ EXCEPT !.pc = "done", !.created = response,
                      !.responses = Append(@,
                          [status |-> 200,
                           body |-> [success |-> TRUE,
                                     modelId |-> requests[r].modelId,
                                     modelName |-> requests[r].completionParams.model,
                                     testMessage |-> requests[r].message,
                                     response |-> response.choices[1].message.content,
                                     usage |-> response.usage]])]]
    /\ UNCHANGED <<serviceVars, processVars, clientVars>>

\* a slip: the failure is logged and no response is sent
testModel_createThrew_noResponse(r, error) ==
    /\ requests[r].pc = "awaiting"
    /\ requests' = [requests EXCEPT ![r] = [@ EXCEPT !.pc = "done", !.thrown = error]]
    /\ UNCHANGED <<serviceVars, processVars, clientVars>>

\* lines 67, 77-83: the completion call threw
testModel_createThrew(r, error) ==
    /\ requests[r].pc = "awaiting"
    /\ requests' = [requests EXCEPT ![r] =
            [@ EXCEPT !.pc = "done", !.thrown = error,
                      !.responses = Append(@, testModelCatch(requests[r].modelId, error))]]
    /\ UNCHANGED <<serviceVars, processVars, clientVars>>

(***************************************************************************)
(* GET /test-models.  The model configurations are static: they are set    *)
(* once when the process starts and read by every request.  A              *)
(* configuration is the sequence of its entries in key order.              *)
(***************************************************************************)
MaxConfiguredModels == 2
MaxListings == 2

ListedModelKeys == {"gpt-5", "grok-4", "claude-sonnet-4"}
\* the isRecommended flag of an entry: true, false, or not there
RecommendedFlags == {"true", "false", Undefined}

ModelEntry(key, flag) ==
    [key |-> key,
     modelName |-> <<"modelName", key>>,
     description |-> <<"description", key>>,
     pricing |-> <<"pricing", key>>,
     capabilities |-> <<"capabilities", key>>,
     contextWindow |-> <<"contextWindow", key>>,
     isRecommended |-> flag]

ModelConfigurations ==
    UNION {
        {[i \in 1..n |-> ModelEntry(keys[i], flags[i])] :
            keys \in {k \in [1..n -> ListedModelKeys] :
                         \A i, j \in 1..n : i # j => k[i] # k[j]},
            flags \in [1..n -> RecommendedFlags]}
        : n \in 0..MaxConfiguredModels}

ErrFetchConfigurations == "Failed to fetch model configurations"

IdleListing == [configuration |-> None, handled |-> 0, response |-> None]

\* a || b on the flags
OrFalse(flag) == IF flag \in {Undefined, "false"} THEN "false" ELSE flag

\* lines 10-18: the summary of one entry
summaryOf(entry) ==
    [id |-> entry.key,
     name |-> entry.modelName,
     description |-> entry.description,
     pricing |-> entry.pricing,
     capabilities |-> entry.capabilities,
     contextWindow |-> entry.contextWindow,
     isRecommended |-> OrFalse(entry.isRecommended)]

IsRecommendedSummary(m) == m.isRecommended = "true"

\* process start: the static configurations
initializeModelConfigurations(configuration) ==
    /\ listings.configuration = None
    /\ listings' = [listings EXCEPT !.configuration = [entries |-> configuration]]
    /\ UNCHANGED <<serviceVars, requests, processVars, extraction, studio, chatTest, github>>

\* a slip: the list of recommended models is the whole list
listModels_noFilter ==
    /\ listings.configuration # None
    /\ listings.handled < MaxListings
    /\ LET models == listings.configuration.entries
           modelList == [i \in 1..Len(models) |-> summaryOf(models[i])]
       IN  listings' = [listings EXCEPT
               !.handled = @ + 1,
               !.response = [status |-> 200,
                             body |-> [success |-> TRUE,
                                       models |-> modelList,
                                       totalModels |-> Len(modelList),
                                       recommendedModels |-> modelList]]]
    /\ UNCHANGED <<serviceVars, requests, processVars, extraction, studio, chatTest, github>>

\* lines 7-25: GET /test-models answers with the summaries
listModels ==
    /\ listings.configuration # None
    /\ listings.handled < MaxListings
    /\ LET models == listings.configuration.entries
           modelList == [i \in 1..Len(models) |-> summaryOf(models[i])]
       IN  listings' = [listings EXCEPT
               !.handled = @ + 1,
               !.response = [status |-> 200,
                             body |-> [success |-> TRUE,
                                       models |-> modelList,
                                       totalModels |-> Len(modelList),
                                       recommendedModels |->
                                           SelectSeq(modelList, IsRecommendedSummary)]]]
    /\ UNCHANGED <<serviceVars, requests, processVars, extraction, studio, chatTest, github>>

\* lines 26-29: reading the configurations threw
listModels_threw ==
    /\ listings.handled < MaxListings
    /\ listings' = [listings EXCEPT
           !.handled = @ + 1,
           !.response = [status |-> 500, body |-> [error |-> ErrFetchConfigurations]]]
    /\ UNCHANGED <<serviceVars, requests, processVars, extraction, studio, chatTest, github>>

(***************************************************************************)
(* ChatTestModule.  The component state is messages, currentMessage and    *)
(* isLoading; posts is the log of the requests POST /api/chat/test it has  *)
(* issued, each pending, done or failed.  An event handler and the         *)
(* re-render it causes are one step: the next event sees the new state.    *)
(***************************************************************************)
MaxSends == 2

\* what the user may type into the input
ChatInputs == {<<>>, <<" ", " ">>, <<"h", "i">>, <<" ", "h", "i", " ">>}
\* the message field of the response body
ChatResponses == {"Hello, I am the agent.", "", Undefined}
FallbackReply == "I'm here to help!"

InitialChatTest ==
    [messages |-> <<>>, currentMessage |-> <<>>, isLoading |-> FALSE, posts |-> <<>>]

PendingPosts == {i \in 1..Len(chatTest.posts) : chatTest.posts[i].state = "pending"}

\* lines 126-133: the input is disabled while loading
InputEnabled == ~chatTest.isLoading
\* lines 134-141: the button is disabled while loading and on a blank input
SendEnabled == ~(trim(chatTest.currentMessage) = <<>> \/ chatTest.isLoading)

\* line 128: onChange
setCurrentMessage(text) ==
    /\ InputEnabled
    /\ chatTest' = [chatTest EXCEPT !.currentMessage = text]
    /\ UNCHANGED <<serviceVars, requests, processVars, extraction, listings, studio, github>>

\* a slip: the loading flag is not raised
sendMessage_noLoadingFlag ==
    /\ Len(chatTest.posts) < MaxSends
    /\ IF trim(chatTest.currentMessage) = <<>> \/ chatTest.isLoading
       THEN UNCHANGED chatTest
       ELSE chatTest' = [chatTest EXCEPT
                !.messages = Append(@, [role |-> "user",
                                        content |-> chatTest.currentMessage]),
                !.currentMessage = <<>>,
                !.posts = Append(@, [message |-> chatTest.currentMessage,
                                     messages |-> chatTest.messages,
                                     state |-> "pending"])]
    /\ UNCHANGED <<serviceVars, requests, processVars, extraction, listings, studio, github>>

\* lines 28-45: sendMessage up to the await of the request
sendMessage ==
    /\ Len(chatTest.posts) < MaxSends
    /\ IF trim(chatTest.currentMessage) = <<>> \/ chatTest.isLoading
       THEN UNCHANGED chatTest
       ELSE chatTest' = [chatTest EXCEPT
                !.messages = Append(@, [role |-> "user",
                                        content |-> chatTest.currentMessage]),
                !.currentMessage = <<>>,
                !.isLoading = TRUE,
                !.posts = Append(@, [message |-> chatTest.currentMessage,
                                     messages |-> chatTest.messages,
                                     state |-> "pending"])]
    /\ UNCHANGED <<serviceVars, requests, processVars, extraction, listings, studio, github>>

\* lines 68-73: Enter in the input
handleKeyPress ==
    /\ InputEnabled
    /\ sendMessage

\* line 135: click on the send button
clickSend ==
    /\ SendEnabled
    /\ sendMessage

\* lines 47-55, 62-64: the response of request i arrived
sendMessage_responded(i, message) ==
    /\ i \in PendingPosts
    /\ chatTest' = [chatTest EXCEPT
           !.messages = Append(@, [role |-> "assistant",
                                   content |-> IF message \in {Undefined, ""}
                                               THEN FallbackReply ELSE message]),
           !.isLoading = FALSE,
           !.posts[i].state = "done"]
    /\ UNCHANGED <<serviceVars, requests, processVars, extraction, listings, studio, github>>

\* a slip: the loading flag is cleared on success only
sendMessage_failed_staysLoading(i) ==
    /\ i \in PendingPosts
    /\ chatTest' = [chatTest EXCEPT !.posts[i].state = "failed"]
    /\ UNCHANGED <<serviceVars, requests, processVars, extraction, listings, studio, github>>

\* lines 56-64: request i failed; a toast is shown
sendMessage_failed(i) ==
    /\ i \in PendingPosts
    /\ chatTest' = [chatTest EXCEPT !.isLoading = FALSE, !.posts[i].state = "failed"]
    /\ UNCHANGED <<serviceVars, requests, processVars, extraction, listings, studio, github>>

(***************************************************************************)
(* ContentStudio.  The component state is selectedConnection, selectedFile, *)
(* currentPreview, chatMessage, chatMessages and fieldEdits (an object: the *)
(* sequence of its entries in insertion order).  pendingPreviews and        *)
(* pendingApply are the requests of previewMutation and applyMutation that  *)
(* have not been answered.  typed is what the user has typed into the       *)
(* fields since the last apply that succeeded, and for which file.  An      *)
(* event handler and the re-render it causes are one step.                  *)
(***************************************************************************)
MaxUserEvents == 8

Null == "null"
Connections == {"conn-1", "conn-2"}
Files == {"content/posts/a.md", "content/posts/b.md"}
FieldPaths == {"title", "description"}
\* what the user may type into a field
FieldValues == {"first edit", "second edit"}
\* what the user may type into the chat input: nothing, white space, or the
\* text meant for the k-th request, so that every prompt is told apart
Digits == <<"1", "2", "3", "4", "5", "6", "7", "8", "9">>
PromptOf(k) == <<"f", "i", "x", " ", Digits[k]>>
StudioInputs(k) == {<<>>, <<" ">>, PromptOf(k)}
\* the patch the AI adds to the patches of a request
GeneratedPatch == [path |-> "body", value |-> "generated", operation |-> "replace"]
PreviewErrors == <<"File not found">>

InitialStudio ==
    [selectedConnection |-> Null,
     selectedFile |-> Null,
     currentPreview |-> None,
     chatMessage |-> <<>>,
     chatMessages |-> <<>>,
     fieldEdits |-> <<>>,
     typed |-> [p \in FieldPaths |-> None],
     events |-> 0,
     pendingPreviews |-> <<>>,
     previewsIssued |-> 0,
     pendingApply |-> None,
     appliesIssued |-> 0,
     lastApply |-> "none"]

RemoveAt(seq, i) == SubSeq(seq, 1, i - 1) \o SubSeq(seq, i + 1, Len(seq))

\* { ...prev, [path]: value }: a known key keeps its place, a new one goes last
WithEntry(entries, path, value) ==
    IF \E i \in 1..Len(entries) : entries[i].path = path
    THEN [i \in 1..Len(entries) |->
             IF entries[i].path = path THEN [path |-> path, value |-> value]
             ELSE entries[i]]
    ELSE Append(entries, [path |-> path, value |-> value])

\* previewMutation.isPending: the request issued last is not answered
PreviewIsPending ==
    \E i \in 1..Len(studio.pendingPreviews) : studio.pendingPreviews[i].current

\* lines 569, 651-657: the editor tab shows the fields and the chat of a file
EditorShown == studio.selectedFile # Null
\* lines 658-665
SendButtonEnabled ==
    /\ EditorShown
    /\ ~(trim(studio.chatMessage) = <<>> \/ PreviewIsPending)
\* lines 668-677
ApplyButtonEnabled ==
    /\ EditorShown
    /\ studio.currentPreview # None
    /\ studio.currentPreview.success
    /\ Len(studio.currentPreview.preview.appliedPatches) > 0
    /\ studio.pendingApply = None

\* line 464: click on a repository
selectConnection(conn) ==
    /\ studio.events < MaxUserEvents
    /\ studio' = [studio EXCEPT !.selectedConnection = conn, !.events = @ + 1]
    /\ UNCHANGED <<serviceVars, requests, processVars, extraction, listings, chatTest, github>>

\* lines 396-403: click on a file of the content library (the library lists
\* the files of a repository, so one has been selected)
selectFile(file) ==
    /\ studio.selectedConnection # Null
    /\ studio.events < MaxUserEvents
    /\ studio' = [studio EXCEPT !.selectedFile = file, !.events = @ + 1]
    /\ UNCHANGED <<serviceVars, requests, processVars, extraction, listings, chatTest, github>>

\* lines 216-218, 591-595: the user edits a field
handleFieldEdit(path, value) ==
    /\ EditorShown
    /\ studio.events < MaxUserEvents
    /\ studio' = [studio EXCEPT
           !.fieldEdits = WithEntry(@, path, value),
           !.typed[path] = [value |-> value, file |-> studio.selectedFile],
           !.events = @ + 1]
    /\ UNCHANGED <<serviceVars, requests, processVars, extraction, listings, chatTest, github>>

\* line 654: the user types into the chat input
setChatMessage(text) ==
    /\ EditorShown
    /\ studio.events < MaxUserEvents
    /\ studio' = [studio EXCEPT !.chatMessage = text, !.events = @ + 1]
    /\ UNCHANGED <<serviceVars, requests, processVars, extraction, listings, chatTest, github>>

\* lines 188-193
patchesOf(fieldEdits) ==
    [i \in 1..Len(fieldEdits) |->
        [path |-> fieldEdits[i].path, value |-> fieldEdits[i].value,
         operation |-> "replace"]]

\* a slip: the patch list is sent also when it is empty
handleSendMessage_alwaysPatches ==
    /\ studio.events < MaxUserEvents
    /\ IF \/ trim(studio.chatMessage) = <<>>
          \/ studio.selectedFile = Null
          \/ studio.selectedConnection = Null
       THEN studio' = [studio EXCEPT !.events = @ + 1]
       ELSE LET patches == patchesOf(studio.fieldEdits) IN
            studio' = [studio EXCEPT
                !.pendingPreviews =
                    Append([i \in 1..Len(@) |->
                               IF @[i].current
                               THEN [@[i] EXCEPT !.current = FALSE,
                                                 !.chatMessage = studio.chatMessage]
                               ELSE @[i]],
                           [connection |-> studio.selectedConnection,
                            filePath |-> studio.selectedFile,
                            patches |-> [list |-> patches],
                            prompt |-> studio.chatMessage,
                            current |-> TRUE,
                            chatMessage |-> studio.chatMessage]),
                !.previewsIssued = @ + 1,
                !.events = @ + 1]
    /\ UNCHANGED <<serviceVars, requests, processVars, extraction, listings, chatTest, github>>

\* lines 185-204, 123-135: handleSendMessage issues the preview request.  The
\* request issued before, if not answered, keeps the onSuccess of this render
handleSendMessage ==
    /\ studio.events < MaxUserEvents
    /\ IF \/ trim(studio.chatMessage) = <<>>
          \/ studio.selectedFile = Null
          \/ studio.selectedConnection = Null
       THEN studio' = [studio EXCEPT !.events = @ + 1]
       ELSE LET patches == patchesOf(studio.fieldEdits) IN
            studio' = [studio EXCEPT
                !.pendingPreviews =
                    Append([i \in 1..Len(@) |->
                               IF @[i].current
                               THEN [@[i] EXCEPT !.current = FALSE,
                                                 !.chatMessage = studio.chatMessage]
                               ELSE @[i]],
                           [connection |-> studio.selectedConnection,
                            filePath |-> studio.selectedFile,
                            patches |-> IF Len(patches) > 0 THEN [list |-> patches]
                                        ELSE None,
                            prompt |-> studio.chatMessage,
                            current |-> TRUE,
                            chatMessage |-> studio.chatMessage]),
                !.previewsIssued = @ + 1,
                !.events = @ + 1]
    /\ UNCHANGED <<serviceVars, requests, processVars, extraction, listings, chatTest, github>>

\* line 655: Enter in the chat input
pressEnter ==
    /\ EditorShown
    /\ handleSendMessage

\* line 660: click on the send button
clickSendPreview ==
    /\ SendButtonEnabled
    /\ handleSendMessage

\* the answers the server may give to request r
PreviewAnswers(r) ==
    {[success |-> TRUE,
      preview |-> [appliedPatches |->
                      (IF r.patches = None THEN <<>> ELSE r.patches.list)
                          \o <<GeneratedPatch>>],
      errors |-> <<>>],
     [success |-> TRUE, preview |-> [appliedPatches |-> <<>>], errors |-> <<>>],
     [success |-> FALSE, preview |-> [appliedPatches |-> <<>>], errors |-> PreviewErrors]}

\* lines 136-150: onSuccess of request i.  chatMessage is read from the render
\* the callback belongs to: the latest one for the request issued last, the
\* one that issued the next request for a request issued before.
\* requestOf is not component state: it names the request the preview answers
previewMutation_onSuccess(i, data) ==
    /\ i \in 1..Len(studio.pendingPreviews)
    /\ LET r == studio.pendingPreviews[i]
           chatMessage == IF r.current THEN studio.chatMessage ELSE r.chatMessage
       IN  studio' = [studio EXCEPT
               !.currentPreview =
                   [success |-> data.success, preview |-> data.preview,
                    errors |-> data.errors,
                    requestOf |-> [connection |-> r.connection, filePath |-> r.filePath]],
               !.chatMessages = @ \o
                   <<[role |-> "user", content |-> chatMessage],
                     [role |-> "assistant",
                      content |-> IF data.success
                                  THEN <<"I've generated content improvements with",
                                         Len(data.preview.appliedPatches), "changes">>
                                  ELSE <<"I encountered some issues:", data.errors>>]>>,
               !.chatMessage = <<>>,
               !.pendingPreviews = RemoveAt(@, i)]
    /\ UNCHANGED <<serviceVars, requests, processVars, extraction, listings, chatTest, github>>

\* lines 123-135: request i failed; previewMutation has no onError
previewMutation_failed(i) ==
    /\ i \in 1..Len(studio.pendingPreviews)
    /\ studio' = [studio EXCEPT !.pendingPreviews = RemoveAt(@, i)]
    /\ UNCHANGED <<serviceVars, requests, processVars, extraction, listings, chatTest, github>>

\* lines 206-214, 154-158: click on Apply issues the apply request
handleApplyChanges ==
    /\ ApplyButtonEnabled
    /\ studio.events < MaxUserEvents
    /\ IF \/ studio.currentPreview = None
          \/ studio.selectedFile = Null
          \/ studio.selectedConnection = Null
       THEN studio' = [studio EXCEPT !.events = @ + 1]
       ELSE studio' = [studio EXCEPT
                !.pendingApply =
                    [connection |-> studio.selectedConnection,
                     filePath |-> studio.selectedFile,
                     patches |-> studio.currentPreview.preview.appliedPatches,
                     commitMessage |-> <<"Update", studio.selectedFile,
                                         "via AI Agent Builder">>],
                !.appliesIssued = @ + 1,
                !.events = @ + 1]
    /\ UNCHANGED <<serviceVars, requests, processVars, extraction, listings, chatTest, github>>

\* lines 159-174: onSuccess of the apply request
applyMutation_onSuccess ==
    /\ studio.pendingApply # None
    /\ studio' = [studio EXCEPT
           !.currentPreview = None,
           !.fieldEdits = <<>>,
           !.typed = [p \in FieldPaths |-> None],
           !.pendingApply = None,
           !.lastApply = "succeeded"]
    /\ UNCHANGED <<serviceVars, requests, processVars, extraction, listings, chatTest, github>>

\* a slip: a failed apply resets the preview and the edits as a successful one
applyMutation_failed_resets ==
    /\ studio.pendingApply # None
    /\ studio' = [studio EXCEPT
           !.currentPreview = None,
           !.fieldEdits = <<>>,
           !.pendingApply = None,
           !.lastApply = "failed"]
    /\ UNCHANGED <<serviceVars, requests, processVars, extraction, listings, chatTest, github>>

\* lines 154-175: the apply request failed; applyMutation has no onError
applyMutation_failed ==
    /\ studio.pendingApply # None
    /\ studio' = [studio EXCEPT !.pendingApply = None, !.lastApply = "failed"]
    /\ UNCHANGED <<serviceVars, requests, processVars, extraction, listings, chatTest, github>>

(***************************************************************************)
(* ContentStudio.connectGitHub (part_001 lines 220-270).  An invocation    *)
(* asks the server for the authorization URL, opens it in the window named *)
(* "github-auth", registers a listener for messages and starts an interval *)
(* that watches the popup.  window.open answers null when the browser      *)
(* blocks the popup, and answers the window of that name when one is open. *)
(***************************************************************************)
MaxConnects == 2
MaxMessages == 2

Popups == <<"popup-1", "popup-2", "popup-3", "popup-4">>
OtherWindow == "other window"
PageOrigin == "https://studio.example"
OtherOrigin == "https://elsewhere.example"
MessageTypes == {"github_auth_success", "github_auth_error"}

InitialGitHub ==
    [connects |-> <<>>,     \* per invocation: pc, popup, listening, polling
     opened |-> 0,          \* the popups created, Popups[1..opened]
     closed |-> {},         \* the popups that are closed
     refreshes |-> 0,       \* invalidations of the connections query
     toasts |-> <<>>,
     event |-> None,        \* the last message event dispatched
     events |-> 0]

OpenPopups == {Popups[k] : k \in 1..github.opened} \ github.closed

Listeners ==
    {i \in 1..Len(github.connects) : github.connects[i].listening}

\* lines 220-223: the button is clicked, the request for the URL is sent
connectGitHub ==
    /\ Len(github.connects) < MaxConnects
    /\ github' = [github EXCEPT !.connects =
            Append(@, [pc |-> "fetching", popup |-> Null,
                       listening |-> FALSE, polling |-> FALSE])]
    /\ UNCHANGED <<serviceVars, requests, processVars, extraction, listings, studio, chatTest>>

\* lines 263-270: the catch of connectGitHub
connectGitHub_caught(i) ==
    github' = [github EXCEPT !.connects[i].pc = "failed",
                             !.toasts = Append(@, "Connection Error")]

\* lines 223, 263-270: the request failed
connectGitHub_requestFailed(i) ==
    /\ i \in 1..Len(github.connects)
    /\ github.connects[i].pc = "fetching"
    /\ connectGitHub_caught(i)
    /\ UNCHANGED <<serviceVars, requests, processVars, extraction, listings, studio, chatTest>>

\* lines 224-262: the answer has arrived; with an authUrl the popup is opened
\* (blocked: window.open answers null), the listener and the interval start
connectGitHub_answered(i, hasAuthUrl, blocked) ==
    /\ i \in 1..Len(github.connects)
    /\ github.connects[i].pc = "fetching"
    /\ IF ~hasAuthUrl
       THEN /\ ~blocked
            /\ connectGitHub_caught(i)
       ELSE LET reused == OpenPopups
                popup == IF blocked THEN Null
                         ELSE IF reused # {} THEN CHOOSE w \in reused : TRUE
                         ELSE Popups[github.opened + 1]
            IN  github' = [github EXCEPT
                    !.connects[i] = [pc |-> "opened", popup |-> popup,
                                     listening |-> TRUE, polling |-> TRUE],
                    !.opened = IF blocked \/ reused # {} THEN @ ELSE @ + 1]
    /\ UNCHANGED <<serviceVars, requests, processVars, extraction, listings, studio, chatTest>>

\* lines 232-236: the check of handleMessage of invocation i
accepts(i, event) ==
    /\ event.origin = PageOrigin
    /\ event.source = github.connects[i].popup
    /\ event.type = "github_auth_success"

\* lines 231-247: a message event is dispatched on the window: every
\* registered handleMessage runs
handleMessage(event) ==
    /\ github.events < MaxMessages
    /\ LET acting == {i \in Listeners : accepts(i, event)}
       IN  github' = [github EXCEPT
               !.connects = [i \in 1..Len(@) |->
                                IF i \in acting THEN [@[i] EXCEPT !.listening = FALSE]
                                ELSE @[i]],
               !.refreshes = @ + Cardinality(acting),
               !.toasts = @ \o [k \in 1..Cardinality(acting) |-> "Repository Connected"],
               !.closed = IF acting = {} THEN @ ELSE @ \cup {event.source},
               !.event = event,
               !.events = @ + 1]
    /\ UNCHANGED <<serviceVars, requests, processVars, extraction, listings, studio, chatTest>>

\* lines 252-258: the interval of invocation i fires and sees the popup closed
checkClosed(i) ==
    /\ i \in 1..Len(github.connects)
    /\ github.connects[i].polling
    /\ github.connects[i].popup # Null
    /\ github.connects[i].popup \in github.closed
    /\ github' = [github EXCEPT !.connects[i].polling = FALSE,
                                !.connects[i].listening = FALSE]
    /\ UNCHANGED <<serviceVars, requests, processVars, extraction, listings, studio, chatTest>>

\* the user, or the page shown in it, closes a popup
closePopup(w) ==
    /\ w \in OpenPopups
    /\ github' = [github EXCEPT !.closed = @ \cup {w}]
    /\ UNCHANGED <<serviceVars, requests, processVars, extraction, listings, studio, chatTest>>

(***************************************************************************)
(* Initial state: the process has started with some environment, the       *)
(* service is not constructed yet, the table is empty, no invocation and   *)
(* no request has started, the components are freshly mounted.             *)
(***************************************************************************)
Init ==
    /\ sessions = <<>>
    /\ clock = 1
    /\ calls = [c \in Calls |-> IdleCall]
    /\ generations = [g \in Generations |-> IdleGeneration]
    /\ requests = [r \in Requests |-> IdleRequest]
    /\ env \in {[GEMINI_API_KEY |-> k] : k \in ApiKeys}
    /\ service = NoService
    /\ extraction = None
    /\ listings = IdleListing
    /\ studio = InitialStudio
    /\ chatTest = InitialChatTest
    /\ github = InitialGitHub

\* the initial states of the specifications that do not use the service
InitConfigured == Init /\ env.GEMINI_API_KEY = "AIza-key"

StartSession ==
    \E userId \in Users, sessionType \in SessionTypes, context \in SessionContexts :
        /\ Constructed
        /\ Len(sessions) < MaxSessions
        /\ startContentSession(userId, Undefined, sessionType, context)

\* invocations take the slots in order: slot c is the c-th invocation to start
Chat ==
    \E c \in Calls, sessionId \in SessionIds, userId \in Users, context \in Contexts :
        /\ Constructed
        /\ \A d \in Calls : d < c => calls[d].pc # "idle"
        /\ chatWithGemini(c, sessionId, UserMessageOf(c), userId, context)

ChatGenerated == \E c \in Calls : chatWithGemini_generated(c, ReplyOf(c))

ChatGenerateThrew ==
    \E c \in Calls, e \in ProviderErrors : chatWithGemini_generateThrew(c, e)

ChatUpdateApplied == \E c \in Calls : chatWithGemini_updateApplied(c)

ChatUpdateThrew == \E c \in Calls, e \in StoreErrors : chatWithGemini_updateThrew(c, e)

ChatReturn == \E c \in Calls : chatWithGemini_return(c)

Generate ==
    \E g \in Generations, kind \in GenerationKinds :
        /\ Constructed
        /\ \A h \in Generations : h < g => generations[h].pc # "idle"
        /\ generateContent(g, kind)

GenerateGenerated == \E g \in Generations : generateContent_generated(g, ReplyOf(g))

GenerateThrew ==
    \E g \in Generations, e \in ProviderErrors : generateContent_generateThrew(g, e)

TestModel ==
    \E r \in Requests, modelId \in ModelIds, body \in RequestBodies :
        /\ \A q \in Requests : q < r => requests[q].pc # "idle"
        /\ testModel(r, modelId, body)

TestModelCreated == \E r \in Requests : testModel_created(r, CompletionOf(r))

TestModelCreateThrew ==
    \E r \in Requests, error \in ProviderFailures : testModel_createThrew(r, error)

(***************************************************************************)
(* Spec: the chat sessions of GeminiContentService.                        *)
(***************************************************************************)
Next ==
    \/ constructor
    \/ StartSession
    \/ Chat
    \/ ChatGenerated
    \/ ChatGenerateThrew
    \/ ChatUpdateApplied
    \/ ChatUpdateThrew
    \/ ChatReturn

Spec == Init /\ [][Next]_vars

(***************************************************************************)
(* GenerationSpec: the generate/rewrite operations beside the sessions.    *)
(***************************************************************************)
NextGeneration ==
    \/ constructor
    \/ StartSession
    \/ Generate
    \/ GenerateGenerated
    \/ GenerateThrew

GenerationSpec == Init /\ [][NextGeneration]_vars

(***************************************************************************)
(* PromptSpec: the exchanges of the owner of a session, on sessions of     *)
(* every type.                                                             *)
(***************************************************************************)
StartSessionOfType ==
    \E sessionType \in AllSessionTypes :
        /\ Constructed
        /\ Len(sessions) < MaxSessions
        /\ startContentSession("alice", Undefined, sessionType, [spyfuData |-> Undefined])

ChatAsOwner ==
    \E c \in Calls, sessionId \in DOMAIN sessions, context \in Contexts :
        /\ Constructed
        /\ \A d \in Calls : d < c => calls[d].pc # "idle"
        /\ chatWithGemini(c, sessionId, UserMessageOf(c), sessions[sessionId].userId, context)

NextPrompt ==
    \/ constructor
    \/ StartSessionOfType
    \/ ChatAsOwner
    \/ ChatGenerated
    \/ ChatUpdateApplied
    \/ ChatReturn

PromptSpec == InitConfigured /\ [][NextPrompt]_vars

(***************************************************************************)
(* StoreSpec: the exchanges of the owners on a store that holds one more   *)
(* session than that of Spec, with no failure of the provider or the store. *)
(***************************************************************************)
StartSessionInStore ==
    \E userId \in Users :
        /\ Constructed
        /\ Len(sessions) < MaxSessions + 1
        \* users are alike: the first session is taken to be alice's
        /\ sessions = <<>> => userId = "alice"
        /\ startContentSession(userId, <<"piece of", userId>>, Undefined,
                               [spyfuData |-> Undefined])

NextStore ==
    \/ constructor
    \/ StartSessionInStore
    \/ ChatAsOwner
    \/ ChatGenerated
    \/ ChatUpdateApplied
    \/ ChatReturn

StoreSpec == InitConfigured /\ [][NextStore]_vars

(***************************************************************************)
(* ListSpec: the requests to GET /test-models.                             *)
(***************************************************************************)
InitializeModelConfigurations ==
    \E configuration \in ModelConfigurations : initializeModelConfigurations(configuration)

NextList ==
    \/ InitializeModelConfigurations
    \/ listModels
    \/ listModels_threw

ListSpec == InitConfigured /\ [][NextList]_vars

(***************************************************************************)
(* ChatTestSpec: the chat test module and its user.                        *)
(***************************************************************************)
SetCurrentMessage == \E text \in ChatInputs : setCurrentMessage(text)

ChatTestResponded ==
    \E i \in 1..Len(chatTest.posts), message \in ChatResponses :
        sendMessage_responded(i, message)

ChatTestFailed == \E i \in 1..Len(chatTest.posts) : sendMessage_failed(i)

NextChatTest ==
    \/ SetCurrentMessage
    \/ handleKeyPress
    \/ clickSend
    \/ ChatTestResponded
    \/ ChatTestFailed

ChatTestSpec == InitConfigured /\ [][NextChatTest]_vars

\* every request is answered or fails in the end: the promise of the request
\* settles, and the continuation of sendMessage then runs
ChatTestLiveSpec == ChatTestSpec /\ WF_vars(ChatTestResponded \/ ChatTestFailed)

(***************************************************************************)
(* StudioSpec: the Content Studio and its user.                            *)
(***************************************************************************)
\* connections, files and fields are alike: the first one the user picks is
\* taken to be conn-1, a.md and title
\* connections, files, fields and values are alike: the first one the user
\* picks is taken to be conn-1, a.md, title and "first edit"; and the user
\* picks or types something else than what is there
SelectConnection ==
    \E conn \in Connections \ {studio.selectedConnection} :
        /\ studio.selectedConnection = Null => conn = "conn-1"
        /\ selectConnection(conn)

SelectFile ==
    \E file \in Files \ {studio.selectedFile} :
        /\ studio.selectedFile = Null => file = "content/posts/a.md"
        /\ selectFile(file)

EditField ==
    \E path \in FieldPaths, value \in FieldValues :
        /\ studio.fieldEdits = <<>> => path = "title" /\ value = "first edit"
        /\ studio.typed[path] # [value |-> value, file |-> studio.selectedFile]
        /\ handleFieldEdit(path, value)

SetChatMessage ==
    \E text \in StudioInputs(studio.previewsIssued + 1) \ {studio.chatMessage} :
        setChatMessage(text)

PreviewSucceeded ==
    \E i \in 1..Len(studio.pendingPreviews) :
        \E data \in PreviewAnswers(studio.pendingPreviews[i]) :
            previewMutation_onSuccess(i, data)

PreviewFailed == \E i \in 1..Len(studio.pendingPreviews) : previewMutation_failed(i)

NextStudio ==
    \/ SelectConnection
    \/ SelectFile
    \/ EditField
    \/ SetChatMessage
    \/ pressEnter
    \/ clickSendPreview
    \/ PreviewSucceeded
    \/ PreviewFailed
    \/ handleApplyChanges
    \/ applyMutation_onSuccess
    \/ applyMutation_failed

StudioSpec == InitConfigured /\ [][NextStudio]_vars

MessageEvents ==
    [origin : {PageOrigin, OtherOrigin},
     source : {Popups[k] : k \in 1..github.opened} \cup {OtherWindow},
     type : MessageTypes]

ClosePopup == \E w \in OpenPopups : closePopup(w)

NextConnect ==
    \/ connectGitHub
    \/ \E i \in 1..MaxConnects, hasAuthUrl \in BOOLEAN, blocked \in BOOLEAN :
           connectGitHub_answered(i, hasAuthUrl, blocked)
    \/ \E i \in 1..MaxConnects : connectGitHub_requestFailed(i)
    \/ \E event \in MessageEvents : handleMessage(event)
    \/ \E i \in 1..MaxConnects : checkClosed(i)
    \/ ClosePopup

ConnectSpec == InitConfigured /\ [][NextConnect]_vars

\* the interval fires every second while it is set; a popup does not stay
\* open for ever: the user, or the page it shows, closes it
ConnectLiveSpec ==
    /\ ConnectSpec
    /\ \A i \in 1..MaxConnects : WF_vars(checkClosed(i))
    /\ WF_vars(ClosePopup)

(***************************************************************************)
(* SuggestionSpec: extractSuggestions on the replies.                      *)
(***************************************************************************)
ReceiveFragment == \E f \in DOMAIN ReplyFragments : receiveFragment(f)

NextSuggestion ==
    \/ ReceiveFragment
    \/ extract

SuggestionSpec == InitConfigured /\ [][NextSuggestion]_vars

(***************************************************************************)
(* RouteSpec: the requests to POST /test-model/:modelId.                   *)
(***************************************************************************)
NextRoute ==
    \/ TestModel
    \/ TestModelCreated
    \/ TestModelCreateThrew

RouteSpec == InitConfigured /\ [][NextRoute]_vars

(***************************************************************************)
(* Properties of chatWithGemini.                                           *)
(***************************************************************************)
InFlight(c) == calls[c].pc \in {"generating", "updating", "committed"}

ProviderFailed(c) == calls[c].thrown \in ProviderErrors

\* the user turn of u and the assistant turn of a, one right after the other
HasExchange(messages, u, a) ==
    \E i \in 1..(Len(messages) - 1) :
        /\ messages[i].role = "user" /\ messages[i].content = u
        /\ messages[i + 1].role = "assistant" /\ messages[i + 1].content = a

HasTurnOf(messages, u) == \E i \in 1..Len(messages) : messages[i].content = u

Replied(s) == {c \in Calls : calls[c].pc = "returned" /\ calls[c].sessionId = s}

\* C1: once the N calls on a session that returned a reply are over, its
\* message list has exactly 2N entries, a user entry and its assistant entry
\* per exchange
C1_TwoEntriesPerExchange ==
    \A s \in DOMAIN sessions :
        (\A c \in Calls : calls[c].sessionId = s => ~InFlight(c)) =>
            /\ Len(sessions[s].messages) = 2 * Cardinality(Replied(s))
            /\ \A c \in Replied(s) :
                   HasExchange(sessions[s].messages, calls[c].userMessage,
                               calls[c].assistantMessage)

\* C2: every step leaves the message list of each session a prefix of what
\* it is after the step
C2_AppendOnly ==
    [][\A s \in DOMAIN sessions :
          IsPrefix(sessions[s].messages, sessions'[s].messages)]_vars

\* C3: a call whose provider call threw has issued no store update, and
\* neither of its turns is in the message list of its session
C3_ProviderThrowPersistsNothing ==
    \A c \in Calls :
        ProviderFailed(c) =>
            /\ calls[c].pc = "failed"
            /\ calls[c].storeUpdates = 0
            /\ ~HasTurnOf(sessions[calls[c].sessionId].messages, calls[c].userMessage)

C3_Witness ==
    \E c \in Calls :
        /\ ProviderFailed(c)
        /\ calls[c].pc = "failed"
        /\ Len(sessions[calls[c].sessionId].messages) = 2

\* C4: at the step at which a call returns a reply both of its turns are in
\* the message list of its session, and the step at which a call raises an
\* error changes no session and leaves none of its turns stored
C4_AllOrNothing ==
    [][\A c \in Calls :
          /\ (calls[c].pc # "returned" /\ calls'[c].pc = "returned") =>
                 HasExchange(sessions'[calls'[c].sessionId].messages,
                             calls'[c].userMessage, calls'[c].assistantMessage)
          /\ (calls[c].pc # "failed" /\ calls'[c].pc = "failed") =>
                 /\ sessions' = sessions
                 /\ calls'[c].storeUpdates = 0]_vars

\* C5: a call for which no session is found fails with 'Chat session not
\* found', which is not the generic error, makes no provider call and changes
\* no session; a call whose session is found never raises that error
C5_SessionNotFound ==
    [][\A c \in Calls :
          (calls[c].pc = "idle" /\ calls'[c].pc # "idle") =>
              IF getChatSession(calls'[c].sessionId, calls'[c].userId) = None
              THEN /\ calls'[c].pc = "failed"
                   /\ calls'[c].error = ErrSessionNotFound
                   /\ calls'[c].error # ErrChatFailed
                   /\ calls'[c].providerCalls = 0
                   /\ calls'[c].storeUpdates = 0
                   /\ sessions' = sessions
              ELSE calls'[c].error # ErrSessionNotFound]_vars

C5_Witness ==
    \E c \in Calls :
        /\ calls[c].pc = "failed"
        /\ calls[c].error = ErrSessionNotFound
        /\ calls[c].sessionId \in DOMAIN sessions
        /\ sessions[calls[c].sessionId].userId # calls[c].userId

\* C6: a call makes at most one provider call, and when the provider threw
\* the call has failed with the one generic error, whatever was thrown
C6_GenericErrorNoRetry ==
    \A c \in Calls :
        /\ calls[c].providerCalls <= 1
        /\ ProviderFailed(c) =>
               /\ calls[c].pc = "failed"
               /\ calls[c].error = ErrChatFailed
               /\ calls[c].error # calls[c].thrown

C6_Witness ==
    \E c \in Calls :
        /\ ProviderFailed(c)
        /\ calls[c].pc = "failed"
        /\ calls[c].providerCalls = 1

\* C17: without GEMINI_API_KEY the constructor fails with the configuration
\* error before any provider client exists, and a service that was not
\* constructed has started no session, no chat call and no provider call
C17_NoServiceWithoutCredential ==
    /\ env.GEMINI_API_KEY \in {Undefined, ""} =>
           /\ service.state \in {"none", "failed"}
           /\ service.genAI = None /\ service.model = None
    /\ service.state = "failed" => service.error = ErrApiKeyRequired
    /\ service.state # "constructed" =>
           /\ sessions = <<>>
           /\ \A c \in Calls : calls[c].pc = "idle" /\ calls[c].providerCalls = 0
           /\ \A g \in Generations : generations[g].providerCalls = 0

C17_Witness == env.GEMINI_API_KEY = Undefined /\ service.state = "failed"

(***************************************************************************)
(* Properties of the prompt and of the life of a session.                  *)
(***************************************************************************)
\* the calls that found their session, and so built a prompt
Prompted(c) == calls[c].pc \notin {"idle"} /\ calls[c].error # ErrSessionNotFound

Contains(pieces, phrase) == \E i \in 1..Len(pieces) : pieces[i] = phrase

\* C12: whatever the type of the session, the prompt of a call has a system
\* block whose text contains 'content strategist' and a user block whose text
\* is the user message of the call; and once the only exchange of a session
\* that had no messages is stored, the session has 2 messages
C12_PromptHasSystemAndUserText ==
    \A c \in Calls :
        Prompted(c) =>
            /\ \E i \in 1..Len(calls[c].prompt) :
                   /\ calls[c].prompt[i].label = "SYSTEM"
                   /\ Contains(calls[c].prompt[i].content, "content strategist")
            /\ \E i \in 1..Len(calls[c].prompt) :
                   /\ calls[c].prompt[i].label = "USER"
                   /\ calls[c].prompt[i].content = calls[c].userMessage
            /\ ( /\ calls[c].pc \in {"committed", "returned"}
                 /\ calls[c].conversationHistory = <<>>
                 /\ \A d \in Calls \ {c} :
                        calls[d].sessionId = calls[c].sessionId => calls[d].storeUpdates = 0 )
               => Len(sessions[calls[c].sessionId].messages) = 2

C12_Witness ==
    \E c \in Calls :
        /\ calls[c].pc = "returned"
        /\ calls[c].conversationHistory = <<>>
        /\ sessions[calls[c].sessionId].sessionType = "landing_page"
        /\ Len(sessions[calls[c].sessionId].messages) = 2

\* the label the prompt gives to a message of the history
LabelOf(role) == IF role = "user" THEN "USER" ELSE "ASSISTANT"

\* the prompt of call c is: the system block, one block per message of the
\* history the call loaded, in order, the block of the new user message, then
\* `extra` further blocks
PromptResendsHistory(c, extra) ==
    LET h == calls[c].conversationHistory
        p == calls[c].prompt
    IN  /\ Len(p) = Len(h) + 2 + extra
        /\ p[1].label = "SYSTEM"
        /\ Contains(p[1].content, "content strategist")
        /\ \A i \in 1..Len(h) :
               p[i + 1] = [label |-> LabelOf(h[i].role), content |-> h[i].content]
        /\ p[Len(h) + 2] = [label |-> "USER", content |-> calls[c].userMessage]

\* C13 (as stated): the prompt is the system prompt, the loaded history in
\* order, the new user message, and right after it the closing instruction
C13_PromptIsHistoryThenClosing ==
    \A c \in Calls :
        Prompted(c) =>
            /\ PromptResendsHistory(c, 1)
            /\ calls[c].prompt[Len(calls[c].prompt)] =
                   [label |-> "CLOSING", content |-> ClosingInstruction]

\* C13 (amended): the prompt is the system prompt, the loaded history in
\* order, the new user message, then the SpyFu block when the context of the
\* call has SpyFu data, and last the closing instruction
C13_PromptIsHistoryContextClosing ==
    \A c \in Calls :
        Prompted(c) =>
            LET p == calls[c].prompt
                spyfu == calls[c].context.spyfuData # Undefined
            IN  /\ PromptResendsHistory(c, IF spyfu THEN 2 ELSE 1)
                /\ spyfu => p[Len(p) - 1] =
                       [label |-> "AVAILABLE CONTEXT",
                        content |-> calls[c].context.spyfuData]
                /\ p[Len(p)] = [label |-> "CLOSING", content |-> ClosingInstruction]

C13_Witness ==
    \E c \in Calls :
        /\ Prompted(c)
        /\ Len(calls[c].conversationHistory) = 2
        /\ calls[c].context.spyfuData # Undefined

\* C18: a session is created with no messages, owned by the user given and,
\* no type given, of type content_creation; a step that changes the messages
\* of a session appends one user entry and one assistant entry to them; and
\* no step removes a session or changes its owner
C18_CreatedEmptyOnlyAppendedNeverDeleted ==
    [][/\ Len(sessions') >= Len(sessions)
       /\ \A s \in DOMAIN sessions :
              /\ sessions'[s].id = sessions[s].id
              /\ sessions'[s].userId = sessions[s].userId
              /\ sessions'[s].messages # sessions[s].messages =>
                     /\ Len(sessions'[s].messages) = Len(sessions[s].messages) + 2
                     /\ SubSeq(sessions'[s].messages, 1, Len(sessions[s].messages))
                            = sessions[s].messages
                     /\ sessions'[s].messages[Len(sessions[s].messages) + 1].role = "user"
                     /\ sessions'[s].messages[Len(sessions[s].messages) + 2].role
                            = "assistant"
       /\ \A s \in DOMAIN sessions' \ DOMAIN sessions :
              /\ sessions'[s].messages = <<>>
              /\ sessions'[s].userId \in Users
              /\ sessions'[s].sessionType = "content_creation"]_vars

(***************************************************************************)
(* Properties of GET /test-models.                                         *)
(***************************************************************************)
Listed == listings.response # None /\ listings.response.status = 200

\* C19: a listing has one summary per configured key, in key order,
\* totalModels is the number of keys, and recommendedModels holds, in the same
\* order, exactly the summaries of the entries whose flag is true (an entry
\* without the flag is not among them and its summary says false)
C19_OneSummaryPerKey ==
    Listed =>
        LET entries == listings.configuration.entries
            body == listings.response.body
            flagged == {i \in 1..Len(entries) : entries[i].isRecommended = "true"}
            \* the place among the recommended of the i-th entry
            place(i) == Cardinality({j \in flagged : j <= i})
        IN  /\ body.totalModels = Len(entries)
            /\ Len(body.models) = Len(entries)
            /\ \A i \in 1..Len(entries) :
                   /\ body.models[i].id = entries[i].key
                   /\ body.models[i].name = entries[i].modelName
                   /\ body.models[i].isRecommended =
                          (IF i \in flagged THEN "true" ELSE "false")
            /\ Len(body.recommendedModels) = Cardinality(flagged)
            /\ \A i \in flagged : body.recommendedModels[place(i)] = body.models[i]

C19_Witness ==
    /\ Listed
    /\ Len(listings.configuration.entries) = 2
    /\ listings.configuration.entries[1].isRecommended = Undefined
    /\ listings.configuration.entries[2].isRecommended = "true"
    /\ Len(listings.response.body.recommendedModels) = 1

(***************************************************************************)
(* Properties of the chat test module.                                     *)
(***************************************************************************)
UserEntries == {k \in 1..Len(chatTest.messages) : chatTest.messages[k].role = "user"}

\* C16: at most one request is pending, and it is the last one issued (each
\* was issued after the one before it had completed or failed); a request is
\* pending exactly while isLoading; and there is exactly one request per
\* user entry of the list, none of them for a blank input
C16_OneRequestInFlight ==
    /\ Cardinality(PendingPosts) <= 1
    /\ \A i \in PendingPosts : i = Len(chatTest.posts)
    /\ chatTest.isLoading <=> PendingPosts # {}
    /\ Len(chatTest.posts) = Cardinality(UserEntries)
    /\ \A i \in 1..Len(chatTest.posts) :
           /\ \E k \in 1..Len(chatTest.posts[i].message) :
                  chatTest.posts[i].message[k] # " "
           /\ Cardinality({k \in UserEntries : k <= Len(chatTest.posts[i].messages) + 1})
                  = i

C16_Witness ==
    /\ Len(chatTest.posts) = 2
    /\ chatTest.posts[1].state = "failed"
    /\ chatTest.posts[2].state = "pending"
    /\ chatTest.isLoading

(***************************************************************************)
(* Properties of the Content Studio.                                       *)
(***************************************************************************)
ApplySucceededStep == studio.pendingApply # None /\ studio'.lastApply = "succeeded"
    /\ studio'.pendingApply = None
ApplyFailedStep == studio.pendingApply # None /\ studio'.lastApply = "failed"
    /\ studio'.pendingApply = None
ApplyIssuedStep == studio'.appliesIssued = studio.appliesIssued + 1
PreviewIssuedStep == studio'.previewsIssued = studio.previewsIssued + 1

\* C14: the step at which an apply succeeds, and every step that selects
\* another file or another connection, leaves no current preview
C14_PreviewDiscardedOnLeaving ==
    [][( \/ ApplySucceededStep
         \/ studio'.selectedFile # studio.selectedFile
         \/ studio'.selectedConnection # studio.selectedConnection )
       => studio'.currentPreview = None]_vars

\* C15: the step at which an apply request is issued and the step at which
\* it fails leave the current preview, the pending field edits, the selected
\* file and connection, and the chat message list as they were
C15_FailedApplyChangesNothing ==
    [][(ApplyFailedStep \/ ApplyIssuedStep) =>
          /\ studio'.currentPreview = studio.currentPreview
          /\ studio'.fieldEdits = studio.fieldEdits
          /\ studio'.selectedFile = studio.selectedFile
          /\ studio'.selectedConnection = studio.selectedConnection
          /\ studio'.chatMessages = studio.chatMessages
          /\ studio'.chatMessage = studio.chatMessage]_vars

C15_Witness ==
    /\ studio.lastApply = "failed"
    /\ studio.pendingApply = None
    /\ studio.currentPreview # None
    /\ studio.fieldEdits # <<>>

\* C20: the patch list of a preview request, when it is issued, has exactly
\* one entry per field the user has typed into since the last apply that
\* succeeded, with operation 'replace' and the value typed last, and there
\* is no patch list when the user has typed into no field
C20_OneReplacePatchPerEdit ==
    [][PreviewIssuedStep =>
          LET r == studio'.pendingPreviews[Len(studio'.pendingPreviews)]
              edited == {p \in FieldPaths : studio.typed[p] # None}
          IN  IF edited = {} THEN r.patches = None
              ELSE /\ r.patches # None
                   /\ Len(r.patches.list) = Cardinality(edited)
                   /\ \A p \in edited :
                          \E i \in 1..Len(r.patches.list) :
                              r.patches.list[i] =
                                  [path |-> p, value |-> studio.typed[p].value,
                                   operation |-> "replace"]]_vars

C20_Witness ==
    \E i \in 1..Len(studio.pendingPreviews) :
        /\ studio.pendingPreviews[i].patches # None
        /\ Len(studio.pendingPreviews[i].patches.list) = 1
        /\ studio.pendingPreviews[i].patches.list[1].value = "second edit"

Rejected(r) == requests[r].pc # "idle" /\ selectClientAndModel(requests[r].modelId).threw

IsSuccess(response) == response.status \in 200..299 /\ "success" \in DOMAIN response.body

IsFailure(response) ==
    /\ response.status \notin 200..299
    /\ "error" \in DOMAIN response.body
    /\ "success" \notin DOMAIN response.body

\* C7: a request whose model identifier the lookup rejects is answered by a
\* failure response and never reaches the completion call
C7_UnknownModelNoProviderCall ==
    \A r \in Requests :
        Rejected(r) =>
            /\ requests[r].pc = "done"
            /\ requests[r].createCalls = 0
            /\ Len(requests[r].responses) = 1
            /\ IsFailure(requests[r].responses[1])

C7_Witness ==
    \E r \in Requests :
        /\ Rejected(r)
        /\ requests[r].pc = "done"
        /\ Len(requests[r].responses) = 1

\* C8: a request whose model identifier is unknown is answered with a
\* status in 400..499
C8_UnknownModelIs4xx ==
    \A r \in Requests :
        Rejected(r) =>
            \A i \in DOMAIN requests[r].responses :
                requests[r].responses[i].status \in 400..499

\* C9: when the provider call failed, nothing of the provider's error is in
\* the response of the route nor in the error chatWithGemini raises
C9_NoProviderDetail ==
    /\ \A r \in Requests :
           requests[r].thrown # None =>
               \A i \in DOMAIN requests[r].responses :
                   \/ "details" \notin DOMAIN requests[r].responses[i].body
                   \/ requests[r].responses[i].body.details # requests[r].thrown.message
    /\ \A c \in Calls : ProviderFailed(c) => calls[c].error # calls[c].thrown

\* C10: a request gets one response and no more: none while the completion
\* is awaited, the success body with the reply text and the usage when the
\* completion arrived, a failure with a non-2xx status when it threw
C10_ExactlyOneResponse ==
    \A r \in Requests :
        /\ requests[r].pc \in {"idle", "awaiting"} => requests[r].responses = <<>>
        /\ requests[r].pc = "done" => Len(requests[r].responses) = 1
        /\ requests[r].created # None =>
               /\ IsSuccess(requests[r].responses[1])
               /\ requests[r].responses[1].body.response =
                      requests[r].created.choices[1].message.content
               /\ requests[r].responses[1].body.usage = requests[r].created.usage
        /\ requests[r].thrown # None =>
               /\ requests[r].created = None
               /\ IsFailure(requests[r].responses[1])

C10_Witness ==
    \E r, q \in Requests :
        /\ requests[r].pc = "done" /\ requests[r].created # None
        /\ requests[q].pc = "done" /\ requests[q].thrown # None

\* C27: the completion request of POST /test-model/:modelId has, when the
\* model name starts with 'gpt-5', max_completion_tokens = 150 and neither
\* max_tokens nor temperature, and otherwise max_tokens = 150 and
\* temperature = 0.7 and no max_completion_tokens; its user message is the
\* message of the request body, or the default message when the body has none
C27_OneTokenLimitByModelName ==
    \A r \in Requests :
        requests[r].completionParams # None =>
            LET p == requests[r].completionParams
                gpt5 == /\ Len(p.model) >= 5
                        /\ p.model[1] = "g" /\ p.model[2] = "p" /\ p.model[3] = "t"
                        /\ p.model[4] = "-" /\ p.model[5] = "5"
            IN  /\ IF gpt5
                   THEN /\ DOMAIN p = {"model", "messages", "max_completion_tokens"}
                        /\ p.max_completion_tokens = 150
                   ELSE /\ DOMAIN p = {"model", "messages", "max_tokens", "temperature"}
                        /\ p.max_tokens = 150
                        /\ p.temperature = [numerator |-> 7, denominator |-> 10]
                /\ p.messages[2].role = "user"
                /\ p.messages[2].content =
                       (IF requests[r].body.message = Undefined
                        THEN "Hello, can you confirm you're working correctly?"
                        ELSE requests[r].body.message)

C27_Witness ==
    /\ \E r \in Requests :
           /\ requests[r].pc = "awaiting"
           /\ requests[r].modelId = "gpt-5"
           /\ requests[r].body.message = Undefined
    /\ \E r \in Requests :
           /\ requests[r].pc = "awaiting"
           /\ requests[r].modelId = "grok-4"
           /\ requests[r].body.message # Undefined

\* C21: a call made for a user on a session owned by another user fails with
\* 'Chat session not found' and has loaded no history, built no prompt, made
\* no provider call and issued no update; so every call that read or wrote
\* a session was made for its owner
C21_SessionsIsolatedByOwner ==
    \A c \in Calls :
        (calls[c].pc # "idle" /\ calls[c].sessionId \in DOMAIN sessions) =>
            (sessions[calls[c].sessionId].userId # calls[c].userId =>
                 /\ calls[c].pc = "failed"
                 /\ calls[c].error = ErrSessionNotFound
                 /\ calls[c].conversationHistory = <<>>
                 /\ calls[c].prompt = <<>>
                 /\ calls[c].updatedMessages = <<>>
                 /\ calls[c].providerCalls = 0
                 /\ calls[c].storeUpdates = 0)

C21_Witness ==
    \E c \in Calls :
        /\ calls[c].pc = "failed"
        /\ calls[c].sessionId \in DOMAIN sessions
        /\ sessions[calls[c].sessionId].userId # calls[c].userId
        /\ Len(sessions[calls[c].sessionId].messages) = 2

\* C22: the step at which the update of a call is applied leaves, in the
\* session of the call, the id, the owner, the type, the linked content and
\* the stored context as they were (the context of the call is not stored)
\* and leaves every other session as it was; no other step of a call
\* changes a session
C22_ExchangeChangesOnlyMessages ==
    [][\A c \in Calls :
          calls'[c] # calls[c] =>
              IF calls[c].pc = "updating" /\ calls'[c].pc = "committed"
              THEN /\ DOMAIN sessions' = DOMAIN sessions
                   /\ \A s \in DOMAIN sessions :
                          IF s = calls[c].sessionId
                          THEN /\ sessions'[s].id = sessions[s].id
                               /\ sessions'[s].userId = sessions[s].userId
                               /\ sessions'[s].sessionType = sessions[s].sessionType
                               /\ sessions'[s].contentPieceId = sessions[s].contentPieceId
                               /\ sessions'[s].context = sessions[s].context
                          ELSE sessions'[s] = sessions[s]
              ELSE sessions' = sessions]_vars

C22_Witness ==
    /\ Len(sessions) = 2
    /\ Len(sessions[1].messages) = 2
    /\ \E c \in Calls :
           /\ calls[c].pc = "returned"
           /\ calls[c].sessionId = 2
           /\ calls[c].context.spyfuData # Undefined
           /\ sessions[2].context.spyfuData = Undefined
           /\ Len(sessions[2].messages) = 2

\* C23: the apply request issued by handleApplyChanges has the filePath of
\* the preview request that the current preview answers
C23_ApplyTargetsPreviewedFile ==
    [][ApplyIssuedStep =>
          studio'.pendingApply.filePath = studio.currentPreview.requestOf.filePath]_vars

\* C24: every patch of a preview request for a file, when it is issued, is
\* an edit the user typed while that file was the selected one
C24_PatchesAreEditsOfTheFile ==
    [][PreviewIssuedStep =>
          LET r == studio'.pendingPreviews[Len(studio'.pendingPreviews)] IN
          r.patches # None =>
              \A i \in 1..Len(r.patches.list) :
                  /\ studio.typed[r.patches.list[i].path] # None
                  /\ studio.typed[r.patches.list[i].path].file = r.filePath]_vars

\* C25: the step at which a preview request is answered appends to the chat
\* list exactly one user entry, whose content is the prompt of that request,
\* and after it one assistant entry; the step at which a preview request
\* fails leaves the chat list and the chat input as they were
C25_UserEntryIsPromptSent ==
    [][Len(studio'.pendingPreviews) < Len(studio.pendingPreviews) =>
          \E i \in 1..Len(studio.pendingPreviews) :
              /\ studio'.pendingPreviews = RemoveAt(studio.pendingPreviews, i)
              /\ \/ /\ studio'.chatMessages = studio.chatMessages
                    /\ studio'.chatMessage = studio.chatMessage
                 \/ /\ Len(studio'.chatMessages) = Len(studio.chatMessages) + 2
                    /\ SubSeq(studio'.chatMessages, 1, Len(studio.chatMessages))
                           = studio.chatMessages
                    /\ studio'.chatMessages[Len(studio.chatMessages) + 1].role = "user"
                    /\ studio'.chatMessages[Len(studio.chatMessages) + 1].content
                           = studio.pendingPreviews[i].prompt
                    /\ studio'.chatMessages[Len(studio.chatMessages) + 2].role
                           = "assistant"]_vars

AssistantEntries ==
    {k \in 1..Len(chatTest.messages) : chatTest.messages[k].role = "assistant"}

\* C26: the loading flag, once set, is cleared in the end; the step at which
\* a request is answered appends one assistant entry to the list and the
\* step at which it fails leaves the list as it is, the user entry in it;
\* every step leaves the list a prefix of what it becomes; and there are
\* never more assistant entries than user entries
C26_LoadingClearedListAppendOnly ==
    /\ chatTest.isLoading ~> ~chatTest.isLoading
    /\ [](Cardinality(AssistantEntries) <= Cardinality(UserEntries))
    /\ [][/\ IsPrefix(chatTest.messages, chatTest'.messages)
          /\ \A i \in PendingPosts :
                 /\ chatTest'.posts[i].state = "done" =>
                        /\ Len(chatTest'.messages) = Len(chatTest.messages) + 1
                        /\ chatTest'.messages[Len(chatTest'.messages)].role = "assistant"
                        /\ chatTest.messages[Len(chatTest.messages)].role = "user"
                        /\ ~chatTest'.isLoading
                 /\ chatTest'.posts[i].state = "failed" =>
                        /\ chatTest'.messages = chatTest.messages
                        /\ chatTest.messages[Len(chatTest.messages)].content
                               = chatTest.posts[i].message
                        /\ ~chatTest'.isLoading]_vars

C26_Witness ==
    /\ Len(chatTest.posts) = 2
    /\ chatTest.posts[1].state = "failed"
    /\ chatTest.posts[2].state = "done"
    /\ ~chatTest.isLoading
    /\ Len(chatTest.messages) = 3

\* the match of a pattern with its trigger words removed, trimmed
withoutTrigger(match, pattern) ==
    trim(SubSeq(match, WordsEnd(match, 1, pattern.words), Len(match)))

RECURSIVE KeptWithoutTrigger(_, _)
KeptWithoutTrigger(matches, pattern) ==
    IF matches = <<>> THEN <<>>
    ELSE LET c == withoutTrigger(Head(matches), pattern) IN
         (IF kept(c) THEN <<c>> ELSE <<>>) \o KeptWithoutTrigger(Tail(matches), pattern)

RECURSIVE KeptCandidates(_, _)
KeptCandidates(response, k) ==
    IF k > Len(patterns) THEN <<>>
    ELSE KeptWithoutTrigger(MatchesFrom(response, 1, patterns[k]), patterns[k])
             \o KeptCandidates(response, k + 1)

\* C28: the list extracted from a reply is the first five of the kept
\* candidates, taken pattern by pattern in the order consider, try, you
\* could, I recommend, suggestion: and within a pattern in the order of the
\* text; a candidate is a match without its trigger phrase, trimmed, and is
\* kept when its length is more than 10 and less than 100
C28_FirstFiveKeptCandidates ==
    (extraction # None /\ extraction.extracted) =>
        LET all == KeptCandidates(extraction.response, 1)
        IN  extraction.suggestions =
                SubSeq(all, 1, IF Len(all) < 5 THEN Len(all) ELSE 5)

(***************************************************************************)
(* Properties of connectGitHub.                                            *)
(***************************************************************************)
Listening(i) == i \in 1..Len(github.connects) /\ github.connects[i].listening

MessageStep == github'.events = github.events + 1

\* C29: a message makes an invocation's listener act (the connections are
\* refreshed, the popup is closed, the listener is removed) only when it is a
\* 'github_auth_success' message whose origin is the page's origin and whose
\* source is the popup of that invocation, a message of another origin or
\* of a window that is no listener's popup changes nothing, and a listener
\* that is registered is removed in the end
C29_OnlyThePopupActsListenerRemoved ==
    /\ [][MessageStep =>
            LET event == github'.event IN
            /\ \A i \in Listeners :
                   ~github'.connects[i].listening =>
                       /\ event.type = "github_auth_success"
                       /\ event.origin = PageOrigin
                       /\ event.source = github.connects[i].popup
                       /\ event.source \in github'.closed
                       /\ github'.refreshes > github.refreshes
            /\ (\/ event.origin # PageOrigin
                \/ \A i \in Listeners : event.source # github.connects[i].popup) =>
                   /\ github'.connects = github.connects
                   /\ github'.refreshes = github.refreshes
                   /\ github'.closed = github.closed
                   /\ github'.toasts = github.toasts]_vars
    /\ \A i \in 1..MaxConnects : Listening(i) ~> ~Listening(i)

====
